---- MODULE Spec2Model ----
(***************************************************************************)
(* Input-token log-probability extractor of web-llm:                       *)
(* calculateInputLogprobs(logitsOnCPUArray, chunk, vocabSize,              *)
(* inputLogprobs).  The function walks the chunk (token runs and image     *)
(* items), keeps a cursor currentOffset, and pushes one value per token.   *)
(* One action is one iteration of its loops.                               *)
(*                                                                         *)
(* Specifications.                                                         *)
(*   Spec            one call, on any inputs                               *)
(*   SpecTwice       the caller calls a second time with the same inputs   *)
(*   SpecPair        two calls on their own inputs, steps interleaved      *)
(*   SpecCompletion  a chat completion of the engine, which scores the     *)
(*                   prompt when input log-probabilities are computed, and *)
(*                   the analysis the demo (App.tsx, analyze) makes of the *)
(*                   response                                              *)
(*                                                                         *)
(* Numbers.  The logits are small integers (exact as Float32).  A value    *)
(* the code computes is a record [k, x, m, e]:                             *)
(*   k = "num"     the finite number x                                     *)
(*   k = "undef"   JavaScript undefined (a typed-array read out of range)  *)
(*   k = "nan", "-inf", "+inf"                                             *)
(*   k = "logprob" the number x - (log(exp(e[1]) + ... + exp(e[n])) + m),  *)
(*                 kept as its terms: x the token's logit, m the row's     *)
(*                 maximum, e the exponent arguments in summation order.   *)
(* With every logit in 0..6 and at least two terms, a "logprob" value is a *)
(* finite number strictly below 0 in double precision.                     *)
(*                                                                         *)
(* Rounding.  JavaScript numbers are doubles.  On the small integers all   *)
(* sums and differences are exact.  On a logit of magnitude 2^60 (written  *)
(* HugeLogit) the sum log(s) + 2^60 with 1 <= s <= vocabSize rounds to     *)
(* 2^60: the doubles next to 2^60 are 256 apart and 0 <= log(s) < 22.      *)
(***************************************************************************)
EXTENDS Integers, Sequences, FiniteSets, TLC

VARIABLES
  logitsOnCPUArray,  \* the flat buffer (a sequence; element i is at index i+1)
  chunk,             \* the sequence of items: token runs and images
  vocabSize,
  inputLogprobs,     \* the caller's output array
  currentOffset,     \* the cursor
  itemIdx,           \* the outer loop: index of the current item (1-based)
  tokIdx,            \* the inner loop: index of the current token (1-based)
  pc,                \* "loop" while the function runs, "returned" after it
  entryLen,          \* length of inputLogprobs when the call was made
  trace,             \* per pushed value: the cursor and the subarray it read
  previousCalls,     \* the values each earlier call of the caller pushed
  other,             \* a second call in progress: its arguments and locals
  request,           \* the chat completion asked of the engine
  reply,             \* the engine's response to it
  result,            \* what the demo's analyze made of the response
  ui,                \* the demo's React state, as of the last render
  runs,              \* the run handlers in progress, each with its closure
  engines            \* the engines created: the model each one holds

\* The chat completion around the call
completion == <<request, reply, result>>

\* What the caller holds besides the arguments of the call
\* The demo application
app == <<ui, runs, engines>>

caller == <<previousCalls, other, completion, app>>

vars == <<logitsOnCPUArray, chunk, vocabSize, inputLogprobs, currentOffset,
          itemIdx, tokIdx, pc, entryLen, trace, caller>>

IMAGE_EMBED_SIZE == 5

\* Bounds of the inputs.
MaxItems == 3
MaxTokens == 3
MaxRows == 7

VocabSizes == {-1, 0, 1, 2}

----------------------------------------------------------------------------
\* Values

Num(n) == [k |-> "num", x |-> n, m |-> 0, e |-> <<>>]
Undef == [k |-> "undef", x |-> 0, m |-> 0, e |-> <<>>]
NaN == [k |-> "nan", x |-> 0, m |-> 0, e |-> <<>>]
NegInf == [k |-> "-inf", x |-> 0, m |-> 0, e |-> <<>>]
PosInf == [k |-> "+inf", x |-> 0, m |-> 0, e |-> <<>>]

Gt_Less(a, b) ==
  /\ a.k = "num"
  /\ \/ b.k = "-inf"
     \/ b.k = "num" /\ a.x < b.x

\* a > b as JavaScript compares a typed-array element with maxVal:
\* false when a is undefined (it converts to NaN).
Gt(a, b) ==
  /\ a.k = "num"
  /\ \/ b.k = "-inf"
     \/ b.k = "num" /\ a.x > b.x

----------------------------------------------------------------------------
\* Chunk items

Run(tokens) == [isArray |-> TRUE, tokens |-> tokens]
Image == [isArray |-> FALSE, tokens |-> <<>>]

\* The layouts: every sequence of at most n items holding at most t tokens,
\* an item being -1 (an image) or the length of a token run.
RECURSIVE Shapes(_, _)
Shapes(n, t) ==
  IF n = 0 THEN {<<>>}
  ELSE {<<>>}
       \cup UNION {{<<k>> \o rest : rest \in Shapes(n - 1, IF k < 0 THEN t ELSE t - k)}
                   : k \in -1..t}

\* The token ids, by the token's rank i >= 0 in encounter order: all 0;
\* 0, 1, 0, ...; 1, 0, 1, ...; -1, 0, 1, -1, ...; 2, 1, 0, 2, ...
TokenPatterns == {"zero", "even", "odd", "negative", "large"}
TokenAt(p, i) ==
  CASE p = "zero" -> 0
    [] p = "even" -> i % 2
    [] p = "odd" -> (i + 1) % 2
    [] p = "negative" -> (i % 3) - 1
    [] OTHER -> 2 - (i % 3)

RECURSIVE ShapeTokens(_, _)
ShapeTokens(shape, n) ==
  IF n = 0 THEN 0
  ELSE ShapeTokens(shape, n - 1) + (IF shape[n] < 0 THEN 0 ELSE shape[n])

ChunkOf(shape, p) ==
  [i \in 1..Len(shape) |->
     IF shape[i] < 0 THEN Image
     ELSE Run([j \in 1..shape[i] |-> TokenAt(p, ShapeTokens(shape, i - 1) + j - 1)])]

Chunks(n, t) == {ChunkOf(shape, p) : shape \in Shapes(n, t), p \in TokenPatterns}

\* Buffers: no row, one row and one more element, the rows up to the one
\* after an image, MaxRows rows; MaxRows rows of zeros; and MaxRows rows of
\* equal logits, the value differing from row to row.
RowWidth(V) == IF V > 0 THEN V ELSE 1
Pattern(p, i) == IF p = 0 THEN 0 ELSE (3 * i) % 7

\* The Float32 value 2^60.  TLC's integers stop at 2^31, so the model writes
\* it as this integer; it occurs only in rows whose entries are all 2^60,
\* where the only difference taken on it is 2^60 - 2^60 = 0.
HugeLogit == 1000000

\* Rows of equal logits: row r holds 2^60, 1, 2, 2^60, 1, ...
UniformLogit(r) == IF r % 3 = 0 THEN HugeLogit ELSE r % 3
UniformRows(V) ==
  [i \in 1..(MaxRows * RowWidth(V)) |-> UniformLogit((i - 1) \div RowWidth(V))]
Buffer(n, p) == [i \in 1..n |-> Pattern(p, i - 1)]
BufferLengths(V) ==
  {0, RowWidth(V) + 1, (IMAGE_EMBED_SIZE + 1) * RowWidth(V), MaxRows * RowWidth(V)}
Buffers(V) ==
  {Buffer(n, 1) : n \in BufferLengths(V)}
    \cup {Buffer(MaxRows * RowWidth(V), 0), UniformRows(V)}

----------------------------------------------------------------------------
\* TypedArray.prototype.subarray(begin, end) on a buffer of len elements:
\* the view's first element and the element after its last.
RelIndex(len, i) ==
  IF i < 0 THEN (IF len + i > 0 THEN len + i ELSE 0)
  ELSE (IF i < len THEN i ELSE len)

subarray(len, begin, end) ==
  LET from == RelIndex(len, begin)
      to == RelIndex(len, end)
  IN [from |-> from, to |-> IF to > from THEN to ELSE from]

\* tokenLogits[j]
Elem(buf, view, j) ==
  IF j >= 0 /\ j < view.to - view.from THEN Num(buf[view.from + j + 1])
  ELSE Undef

RECURSIVE MaxLoop(_, _, _, _, _)
MaxLoop(buf, view, V, j, maxVal) ==
  IF j < V
  THEN LET t == Elem(buf, view, j)
       IN MaxLoop(buf, view, V, j + 1, IF Gt(t, maxVal) THEN t ELSE maxVal)
  ELSE maxVal

\* sumExp as [nan, e]: NaN, or the sum of exp(e[i]) in order (0 when e is empty)
RECURSIVE SumLoop(_, _, _, _, _, _)
SumLoop(buf, view, V, j, maxVal, sumExp) ==
  IF j < V
  THEN LET t == Elem(buf, view, j)
       IN SumLoop(buf, view, V, j + 1, maxVal,
                  IF t.k = "num" /\ maxVal.k = "num" /\ ~sumExp.nan
                  THEN [nan |-> FALSE, e |-> Append(sumExp.e, t.x - maxVal.x)]
                  ELSE [nan |-> TRUE, e |-> <<>>])
  ELSE sumExp

\* log(s) + m rounds to m in double precision (1 <= s <= vocabSize)
Absorbs(m) == m >= HugeLogit \/ m <= -HugeLogit

\* Math.log(sumExp) + maxVal
LogSumExp(sumExp, maxVal) ==
  IF sumExp.nan \/ maxVal.k = "nan" THEN NaN
  ELSE IF sumExp.e = <<>> THEN NegInf
  ELSE IF Absorbs(maxVal.x) THEN Num(maxVal.x)
  ELSE [k |-> "lse", x |-> 0, m |-> maxVal.x, e |-> sumExp.e]

\* tokenLogits[token] - logSumExp
Minus(t, lse) ==
  IF t.k # "num" \/ lse.k = "nan" THEN NaN
  ELSE IF lse.k = "-inf" THEN PosInf
  ELSE IF lse.k = "num" THEN Num(t.x - lse.x)
  ELSE IF Len(lse.e) = 1 /\ lse.e[1] = 0
       THEN Num(t.x - lse.m)   \* log(exp(0)) + m is m exactly
  ELSE [k |-> "logprob", x |-> t.x, m |-> lse.m, e |-> lse.e]

LogProb(buf, view, V, token) ==
  LET maxVal == MaxLoop(buf, view, V, 0, NegInf)
      sumExp == SumLoop(buf, view, V, 0, maxVal, [nan |-> FALSE, e |-> <<>>])
  IN Minus(Elem(buf, view, token), LogSumExp(sumExp, maxVal))

----------------------------------------------------------------------------
\* The call

\* No second call is in progress
NoCall == [pc |-> "none"]

\* A field of the response: undefined, or set to v
Undefined == [defined |-> FALSE, value |-> <<>>]
Defined(v) == [defined |-> TRUE, value |-> v]

\* No response yet; no analysis yet
NoReply == [created |-> FALSE, input_logprobs |-> Undefined, input_tokens |-> Undefined]
NoStats == [isNull |-> TRUE, over |-> <<>>]
NoResult == [done |-> FALSE, threw |-> FALSE, tokens |-> <<>>, stats |-> NoStats]

\* A completion that asks for the input log-probabilities of a model that
\* has prefill_all_logits
DefaultRequest == [return_input_logprobs |-> TRUE, hasPrefillAllLogits |-> TRUE]

\* AVAILABLE_MODELS, the first two ids
ModelIds == {"TinyLlama", "Qwen2.5-1.5B"}

\* leftResult, rightResult: null
NoAnalysis ==
  [isNull |-> TRUE, tokens |-> <<>>, stats |-> NoStats, modelName |-> "null"]

\* The state of App at its first render; engine 0 is null, an engine is
\* otherwise its index in engines
InitialUi ==
  [engine |-> 0, currentModelLoaded |-> "null",
   leftModelId |-> "TinyLlama", rightModelId |-> "Qwen2.5-1.5B",
   leftResult |-> NoAnalysis, rightResult |-> NoAnalysis,
   processingSide |-> "null", status |-> "Ready"]

\* The demo is not running
AppIdle == ui = InitialUi /\ runs = <<>> /\ engines = <<>>

HasContext_PerRun == tokIdx > 1

HasContext_Always == TRUE

\* line 19: the token has a preceding position
HasContext == currentOffset > 0

PrevLogitIndex_SameRow(offset) == offset

\* line 20
PrevLogitIndex(offset) == offset - 1

Sentinel_NaN == NaN

\* line 39
Sentinel == Num(0)

Advance_None(offset) == offset

\* line 41
Advance(offset) == offset + 1

\* lines 22-23: the arguments of subarray
SubarrayBegin(V, offset) == PrevLogitIndex(offset) * V
SubarrayEnd(V, offset) == (PrevLogitIndex(offset) + 1) * V

\* lines 21-24: tokenLogits
RowView(buf, V, offset) ==
  subarray(Len(buf), SubarrayBegin(V, offset), SubarrayEnd(V, offset))

Push_Front(arr, v) == <<v>> \o arr

\* lines 36 and 39: inputLogprobs.push
Push(arr, v) == Append(arr, v)

\* The array the caller passes: empty, or holding a value already
EntryArrays == {<<>>, <<Num(-1)>>}

Init ==
  /\ vocabSize \in VocabSizes
  /\ chunk \in Chunks(MaxItems, MaxTokens)
  /\ logitsOnCPUArray \in Buffers(vocabSize)
  /\ inputLogprobs \in EntryArrays
  /\ entryLen = Len(inputLogprobs)
  /\ currentOffset = 0
  /\ itemIdx = 1
  /\ tokIdx = 1
  /\ pc = "loop"
  /\ trace = <<>>
  /\ previousCalls = <<>>
  /\ other = NoCall
  /\ request = DefaultRequest
  /\ reply = NoReply
  /\ result = NoResult
  /\ AppIdle

InItem == pc = "loop" /\ itemIdx <= Len(chunk)
InRun == InItem /\ chunk[itemIdx].isArray /\ tokIdx <= Len(chunk[itemIdx].tokens)

ScoreToken_SkipNaN ==
  /\ InRun
  /\ HasContext
  /\ LET token == chunk[itemIdx].tokens[tokIdx]
         view == RowView(logitsOnCPUArray, vocabSize, currentOffset)
         logProb == LogProb(logitsOnCPUArray, view, vocabSize, token)
     IN IF logProb.k = "nan"
        THEN UNCHANGED <<inputLogprobs, trace>>
        ELSE /\ inputLogprobs' = Push(inputLogprobs, logProb)
             /\ trace' = Append(trace, [pos |-> currentOffset, sentinel |-> FALSE,
                                        row |-> PrevLogitIndex(currentOffset),
                                        begin |-> SubarrayBegin(vocabSize, currentOffset),
                                        end |-> SubarrayEnd(vocabSize, currentOffset),
                                        from |-> view.from, to |-> view.to])
  /\ currentOffset' = Advance(currentOffset)
  /\ tokIdx' = tokIdx + 1
  /\ UNCHANGED <<caller, logitsOnCPUArray, chunk, vocabSize, itemIdx, pc, entryLen>>

ScoreToken_InPlace ==
  /\ InRun
  /\ HasContext
  /\ LET token == chunk[itemIdx].tokens[tokIdx]
         view == RowView(logitsOnCPUArray, vocabSize, currentOffset)
         maxVal == MaxLoop(logitsOnCPUArray, view, vocabSize, 0, NegInf)
     IN /\ inputLogprobs' =
             Push(inputLogprobs, LogProb(logitsOnCPUArray, view, vocabSize, token))
        /\ logitsOnCPUArray' =
             [i \in DOMAIN logitsOnCPUArray |->
                IF view.from < i /\ i <= view.to /\ maxVal.k = "num"
                THEN logitsOnCPUArray[i] - maxVal.x
                ELSE logitsOnCPUArray[i]]
        /\ trace' = Append(trace, [pos |-> currentOffset, sentinel |-> FALSE,
                                   row |-> PrevLogitIndex(currentOffset),
                                   begin |-> SubarrayBegin(vocabSize, currentOffset),
                                   end |-> SubarrayEnd(vocabSize, currentOffset),
                                   from |-> view.from, to |-> view.to])
  /\ currentOffset' = Advance(currentOffset)
  /\ tokIdx' = tokIdx + 1
  /\ UNCHANGED <<caller, chunk, vocabSize, itemIdx, pc, entryLen>>

\* lines 19-36 and 41: a token at a positive offset
ScoreToken ==
  /\ InRun
  /\ HasContext
  /\ LET token == chunk[itemIdx].tokens[tokIdx]
         view == RowView(logitsOnCPUArray, vocabSize, currentOffset)
     IN /\ inputLogprobs' =
             Push(inputLogprobs, LogProb(logitsOnCPUArray, view, vocabSize, token))
        /\ trace' = Append(trace, [pos |-> currentOffset, sentinel |-> FALSE,
                                   row |-> PrevLogitIndex(currentOffset),
                                   begin |-> SubarrayBegin(vocabSize, currentOffset),
                                   end |-> SubarrayEnd(vocabSize, currentOffset),
                                   from |-> view.from, to |-> view.to])
  /\ currentOffset' = Advance(currentOffset)
  /\ tokIdx' = tokIdx + 1
  /\ UNCHANGED <<caller, logitsOnCPUArray, chunk, vocabSize, itemIdx, pc, entryLen>>

FirstToken_NoPush ==
  /\ InRun
  /\ ~HasContext
  /\ currentOffset' = Advance(currentOffset)
  /\ tokIdx' = tokIdx + 1
  /\ UNCHANGED <<caller, logitsOnCPUArray, chunk, vocabSize, inputLogprobs, itemIdx,
                 pc, entryLen, trace>>

\* lines 37-41: the token at offset 0
FirstToken ==
  /\ InRun
  /\ ~HasContext
  /\ inputLogprobs' = Push(inputLogprobs, Sentinel)
  /\ trace' = Append(trace, [pos |-> currentOffset, sentinel |-> TRUE,
                             row |-> -1, begin |-> 0, end |-> 0,
                             from |-> 0, to |-> 0])
  /\ currentOffset' = Advance(currentOffset)
  /\ tokIdx' = tokIdx + 1
  /\ UNCHANGED <<caller, logitsOnCPUArray, chunk, vocabSize, itemIdx, pc, entryLen>>

\* line 18: the run is exhausted, on to the next item
EndRun ==
  /\ InItem
  /\ chunk[itemIdx].isArray
  /\ tokIdx > Len(chunk[itemIdx].tokens)
  /\ itemIdx' = itemIdx + 1
  /\ tokIdx' = 1
  /\ UNCHANGED <<caller, logitsOnCPUArray, chunk, vocabSize, inputLogprobs,
                 currentOffset, pc, entryLen, trace>>

ImageOffset_One(offset) == offset + 1

\* line 45
ImageOffset(offset) == offset + IMAGE_EMBED_SIZE

\* lines 43-46: an ImageURL item
SkipImage ==
  /\ InItem
  /\ ~chunk[itemIdx].isArray
  /\ currentOffset' = ImageOffset(currentOffset)
  /\ itemIdx' = itemIdx + 1
  /\ tokIdx' = 1
  /\ UNCHANGED <<caller, logitsOnCPUArray, chunk, vocabSize, inputLogprobs, pc,
                 entryLen, trace>>

\* line 15: no item is left; the function returns
Return ==
  /\ pc = "loop"
  /\ itemIdx > Len(chunk)
  /\ pc' = "returned"
  /\ UNCHANGED <<caller, logitsOnCPUArray, chunk, vocabSize, inputLogprobs,
                 currentOffset, itemIdx, tokIdx, entryLen, trace>>

Next == ScoreToken \/ FirstToken \/ EndRun \/ SkipImage \/ Return

Spec == Init /\ [][Next]_vars

----------------------------------------------------------------------------
\* A caller that calls again

\* The values this call has pushed, as a sequence
EmittedSeq == SubSeq(inputLogprobs, entryLen + 1, Len(inputLogprobs))

EntryOffset_Kept(offset) == offset

\* line 14: let currentOffset = 0
EntryOffset(offset) == 0

\* lines 8-14: the caller calls the function once more with the same logits,
\* chunk and vocabSize, on the same array or on a new empty one
CallAgain ==
  /\ pc = "returned"
  /\ previousCalls = <<>>
  /\ previousCalls' = Append(previousCalls, EmittedSeq)
  /\ \E arr \in {inputLogprobs, <<>>} :
       /\ inputLogprobs' = arr
       /\ entryLen' = Len(arr)
  /\ currentOffset' = EntryOffset(currentOffset)
  /\ itemIdx' = 1
  /\ tokIdx' = 1
  /\ pc' = "loop"
  /\ trace' = <<>>
  /\ UNCHANGED <<logitsOnCPUArray, chunk, vocabSize, other, completion, app>>

NextTwice == Next \/ CallAgain

SpecTwice == Init /\ [][NextTwice]_vars

----------------------------------------------------------------------------
\* Two calls in progress, their steps interleaved.  The second call is the
\* record other: the arguments logits, chunk, vocabSize, out, and the locals
\* offset (currentOffset), item and tok (the two loops), pc.

\* lines 8-14: a call at its entry
StartOf(buf, c, V, arr) ==
  [logits |-> buf, chunk |-> c, vocabSize |-> V, out |-> arr,
   entry |-> Len(arr), offset |-> 0, item |-> 1, tok |-> 1, pc |-> "loop"]

CursorOf_Shared(f) == currentOffset

\* currentOffset of the call f
CursorOf(f) == f.offset

HasContextOf_PerRun(f) == f.tok > 1

\* line 19: currentOffset > 0 in call f
HasContextOf(f) == CursorOf(f) > 0

\* lines 15-47: one iteration of the loops of call f
StepOf(f) ==
  IF f.item > Len(f.chunk) THEN [f EXCEPT !.pc = "returned"]
  ELSE IF ~f.chunk[f.item].isArray
  THEN [f EXCEPT !.offset = ImageOffset(CursorOf(f)), !.item = @ + 1, !.tok = 1]
  ELSE IF f.tok > Len(f.chunk[f.item].tokens)
  THEN [f EXCEPT !.item = @ + 1, !.tok = 1]
  ELSE IF HasContextOf(f)
  THEN [f EXCEPT
          !.out = Push(@, LogProb(f.logits,
                                  RowView(f.logits, f.vocabSize, CursorOf(f)),
                                  f.vocabSize, f.chunk[f.item].tokens[f.tok])),
          !.offset = Advance(CursorOf(f)),
          !.tok = @ + 1]
  ELSE [f EXCEPT !.out = Push(@, Sentinel),
                 !.offset = Advance(CursorOf(f)),
                 !.tok = @ + 1]

\* The second call takes a step
OtherStep ==
  /\ other.pc = "loop"
  /\ other' = StepOf(other)
  /\ UNCHANGED <<logitsOnCPUArray, chunk, vocabSize, inputLogprobs,
                 currentOffset, itemIdx, tokIdx, pc, entryLen, trace,
                 previousCalls, completion, app>>

\* The inputs of the two calls
PairVocabSizes == {1, 2}
PairChunks ==
  {<<Run(<<0, 1>>)>>, <<Run(<<0>>), Image, Run(<<1>>)>>, <<Image, Run(<<1, 0>>)>>}
PairBuffers(V) == {Buffer(MaxRows * V, 1), UniformRows(V)}

InitPair ==
  /\ vocabSize \in PairVocabSizes
  /\ chunk \in PairChunks
  /\ logitsOnCPUArray \in PairBuffers(vocabSize)
  /\ inputLogprobs = <<>>
  /\ entryLen = 0
  /\ currentOffset = 0
  /\ itemIdx = 1
  /\ tokIdx = 1
  /\ pc = "loop"
  /\ trace = <<>>
  /\ previousCalls = <<>>
  /\ request = DefaultRequest
  /\ reply = NoReply
  /\ result = NoResult
  /\ AppIdle
  /\ \E V \in PairVocabSizes :
       \E c \in PairChunks, buf \in PairBuffers(V), arr \in {<<>>, <<Num(-1)>>} :
         other = StartOf(buf, c, V, arr)

NextPair == Next \/ OtherStep

SpecPair == InitPair /\ [][NextPair]_vars

----------------------------------------------------------------------------
\* A chat completion of the engine and the demo's analysis of its response.
\* The engine scores the prompt tokens (the call above) when it computes the
\* input log-probabilities.

ComputesLogprobs_Requested == request.return_input_logprobs

\* README: options.return_input_logprobs && hasPrefillAllLogits
ComputesLogprobs == request.return_input_logprobs /\ request.hasPrefillAllLogits

\* inputTokens: the prompt's token ids in order
RECURSIVE InputTokens(_, _)
InputTokens(c, n) ==
  IF n = 0 THEN <<>>
  ELSE InputTokens(c, n - 1) \o (IF c[n].isArray THEN c[n].tokens ELSE <<>>)

\* The response a completion ends with
Response ==
  IF ComputesLogprobs
  THEN [created |-> TRUE,
        input_logprobs |-> Defined(EmittedSeq),
        input_tokens |-> Defined(InputTokens(chunk, Len(chunk)))]
  ELSE [created |-> TRUE, input_logprobs |-> Undefined, input_tokens |-> Undefined]

\* eng.chat.completions.create resolves
Respond ==
  /\ ~reply.created
  /\ ComputesLogprobs => pc = "returned"
  /\ reply' = Response
  /\ UNCHANGED <<logitsOnCPUArray, chunk, vocabSize, inputLogprobs,
                 currentOffset, itemIdx, tokIdx, pc, entryLen, trace,
                 previousCalls, other, request, result, app>>

\* String(x)
StringOf(x) == [string |-> x]

\* typeof lp === "number" && !isNaN(lp)
IsValidLogprob(lp) == lp.k # "nan" /\ lp.k # "undef"

\* No pair is made
Shorter_None(a, b) == 0

\* i < a.length && i < b.length
Shorter(a, b) == IF a < b THEN a ELSE b

\* stats: null, or min, max, avg and perplexity of the values in over, avg
\* being their sum divided by their number and perplexity exp(-avg)
StatsOver(validLogprobs) ==
  IF Len(validLogprobs) > 0 THEN [isNull |-> FALSE, over |-> validLogprobs]
  ELSE NoStats

\* App.tsx analyze, from the reply on
AnalysisOf(r) ==
  IF r.input_logprobs.defined
  THEN LET inputLogprobsR == r.input_logprobs.value
           n == IF r.input_tokens.defined
                THEN Shorter(Len(r.input_tokens.value), Len(inputLogprobsR))
                ELSE 0
       IN [done |-> TRUE, threw |-> FALSE,
           tokens |-> [i \in 1..n |-> [token |-> StringOf(r.input_tokens.value[i]),
                                       logprob |-> inputLogprobsR[i]]],
           stats |-> StatsOver(SelectSeq(inputLogprobsR, IsValidLogprob))]
  ELSE [done |-> TRUE, threw |-> TRUE, tokens |-> <<>>, stats |-> NoStats]

Analyze ==
  /\ reply.created
  /\ ~result.done
  /\ result' = AnalysisOf(reply)
  /\ UNCHANGED <<logitsOnCPUArray, chunk, vocabSize, inputLogprobs,
                 currentOffset, itemIdx, tokIdx, pc, entryLen, trace,
                 previousCalls, other, request, reply, app>>

\* The engine's vocabulary
EngineVocabSizes == {1, 2}

InitCompletion ==
  /\ vocabSize \in EngineVocabSizes
  /\ chunk \in Chunks(MaxItems, MaxTokens)
  /\ logitsOnCPUArray \in Buffers(vocabSize)
  /\ inputLogprobs = <<>>
  /\ entryLen = 0
  /\ currentOffset = 0
  /\ itemIdx = 1
  /\ tokIdx = 1
  /\ pc = "loop"
  /\ trace = <<>>
  /\ previousCalls = <<>>
  /\ other = NoCall
  /\ request \in [return_input_logprobs : BOOLEAN, hasPrefillAllLogits : BOOLEAN]
  /\ reply = NoReply
  /\ result = NoResult
  /\ AppIdle

NextCompletion ==
  \/ ComputesLogprobs /\ ~reply.created /\ Next
  \/ Respond
  \/ Analyze

SpecCompletion == InitCompletion /\ [][NextCompletion]_vars

\* ---------------------------------------------------------------------
\* The demo application: runLeft, runRight, runBoth, analyze and
\* getEngineForModel of App.tsx. A handler runs on the state of the render
\* in which it was invoked: engine, currentModelLoaded, leftModelId and
\* rightModelId are constants of that render, and a setState reaches ui
\* (the next render) but not the handler already running.

\* if (processingSide) return;
Busy_Never(u) == FALSE

Busy(u) == u.processingSide # "null"

\* The panel whose model a handler analyses first
FirstPhase_Right(kind) == "right"

FirstPhase(kind) == IF kind = "right" THEN "right" ELSE "left"

\* leftModelId or rightModelId, as the handler closed over them
SideModel(r, phase) == IF phase = "left" THEN r.leftModelId ELSE r.rightModelId

\* if (engine && currentModelLoaded === modelId) return engine;
CachedEngine(r, modelId) == r.engine # 0 /\ r.currentModelLoaded = modelId

\* analyze, from its call to the first await that waits for the engine or
\* the model: the cached engine goes straight to the completion, no engine
\* yet to CreateMLCEngine, another model to reload
BeginAnalyze(r, phase) ==
  LET modelId == SideModel(r, phase) IN
  [r EXCEPT !.phase = phase, !.modelId = modelId, !.eng = r.engine,
            !.cached = CachedEngine(r, modelId),
            !.at = IF CachedEngine(r, modelId) THEN "inference"
                   ELSE IF r.engine = 0 THEN "creating" ELSE "reloading"]

\* setStatus(`Initializing ...`), setStatus(`Running inference on ...`)
StatusAt(at) == IF at = "inference" THEN "Running inference" ELSE "Initializing"

\* The handler invoked in the render u
Handler(kind, u) ==
  BeginAnalyze([kind |-> kind, engine |-> u.engine,
                currentModelLoaded |-> u.currentModelLoaded,
                leftModelId |-> u.leftModelId, rightModelId |-> u.rightModelId,
                phase |-> "left", modelId |-> "null", eng |-> 0,
                cached |-> FALSE, at |-> "inference", leftStored |-> FALSE],
               FirstPhase(kind))

\* finally { setProcessingSide(null); }
Finally_None(u) == u

Finally(u) == [u EXCEPT !.processingSide = "null"]

\* catch (e) { setStatus(`Error: ${e}`); } and the finally after it
Catch(u) == Finally([u EXCEPT !.status = "Error"])

\* The handler i has returned
Remove(s, i) == SubSeq(s, 1, i - 1) \o SubSeq(s, i + 1, Len(s))

\* What the engine may answer to chat.completions.create: input_logprobs
\* and input_tokens present or not, of equal or different lengths
AppReplies ==
  {[created |-> TRUE, input_logprobs |-> lp, input_tokens |-> tk] :
     lp \in {Undefined, Defined(<<Num(0), NaN>>)},
     tk \in {Undefined, Defined(<<7>>), Defined(<<7, 8>>), Defined(<<7, 8, 9>>)}}

\* The AnalysisResult analyze returns
ResultOf(a, modelId) ==
  [isNull |-> FALSE, tokens |-> a.tokens, stats |-> a.stats, modelName |-> modelId]

\* runLeft, runRight or runBoth is invoked
Click(kind) ==
  /\ IF Busy(ui)
     THEN UNCHANGED <<ui, runs, reply>>
     ELSE /\ runs' = Append(runs, Handler(kind, ui))
          /\ ui' = [ui EXCEPT !.processingSide = kind,
                              !.status = StatusAt(Handler(kind, ui).at)]
          /\ reply' = NoReply
  /\ UNCHANGED <<logitsOnCPUArray, chunk, vocabSize, inputLogprobs,
                 currentOffset, itemIdx, tokIdx, pc, entryLen, trace,
                 previousCalls, other, request, result, engines>>

\* A model is chosen in the left or the right select, enabled when no run
\* is in progress
Select(side, m) ==
  /\ ~Busy(ui)
  /\ ui' = IF side = "left" THEN [ui EXCEPT !.leftModelId = m]
           ELSE [ui EXCEPT !.rightModelId = m]
  /\ UNCHANGED <<logitsOnCPUArray, chunk, vocabSize, inputLogprobs,
                 currentOffset, itemIdx, tokIdx, pc, entryLen, trace,
                 previousCalls, other, completion, runs, engines>>

\* The model an engine holds once its reload has failed: the one it held, or
\* none; a failed CreateMLCEngine leaves no engine
HeldAfterFailure(r) ==
  IF r.at = "reloading" THEN {engines[r.eng].model, "none"} ELSE {"none"}

\* CreateMLCEngine or reload settles: fulfilled (ok), or rejected with the
\* engine left holding the model held
LoadSettles(i, ok, held) ==
  /\ i \in 1..Len(runs)
  /\ runs[i].at \in {"creating", "reloading"}
  /\ LET r == runs[i]
         created == Len(engines) + 1
     IN IF ok
        THEN /\ engines' = IF r.at = "creating"
                           THEN Append(engines, [model |-> r.modelId])
                           ELSE [engines EXCEPT ![r.eng].model = r.modelId]
             /\ ui' = [ui EXCEPT !.engine = IF r.at = "creating" THEN created ELSE @,
                                 !.currentModelLoaded = r.modelId,
                                 !.status = StatusAt("inference")]
             /\ runs' = [runs EXCEPT ![i].at = "inference",
                                     ![i].eng = IF r.at = "creating" THEN created ELSE @]
        ELSE /\ engines' = IF r.at = "creating" THEN engines
                           ELSE [engines EXCEPT ![r.eng].model = held]
             /\ ui' = Catch(ui)
             /\ runs' = Remove(runs, i)
  /\ UNCHANGED <<logitsOnCPUArray, chunk, vocabSize, inputLogprobs,
                 currentOffset, itemIdx, tokIdx, pc, entryLen, trace,
                 previousCalls, other, completion>>

\* chat.completions.create settles: rejected (NoReply) or fulfilled with
\* rep; analyze returns or throws, and the handler goes on to its end or,
\* in runBoth after the left analysis, to the pause
InferenceSettles(i, rep) ==
  /\ i \in 1..Len(runs)
  /\ runs[i].at = "inference"
  /\ reply' = rep
  /\ LET r == runs[i]
         a == AnalysisOf(rep)
         res == ResultOf(a, r.modelId)
     IN IF ~rep.created \/ a.threw
        THEN ui' = Catch(ui) /\ runs' = Remove(runs, i)
        ELSE IF r.phase = "left" /\ r.kind = "both"
        THEN /\ ui' = [ui EXCEPT !.leftResult = res]
             /\ runs' = [runs EXCEPT ![i].at = "breath", ![i].leftStored = TRUE]
        ELSE /\ ui' = Finally([ui EXCEPT
                         !.leftResult = IF r.phase = "left" THEN res ELSE @,
                         !.rightResult = IF r.phase = "right" THEN res ELSE @,
                         !.status = IF r.kind = "both" THEN "Comparison Complete"
                                    ELSE "Analysis Complete"])
             /\ runs' = Remove(runs, i)
  /\ UNCHANGED <<logitsOnCPUArray, chunk, vocabSize, inputLogprobs,
                 currentOffset, itemIdx, tokIdx, pc, entryLen, trace,
                 previousCalls, other, request, result, engines>>

\* runBoth's setTimeout fires: the right analysis begins, in the same
\* closure as the left one
BreathSettles(i) ==
  /\ i \in 1..Len(runs)
  /\ runs[i].at = "breath"
  /\ runs' = [runs EXCEPT ![i] = BeginAnalyze(runs[i], "right")]
  /\ ui' = [ui EXCEPT !.status = StatusAt(BeginAnalyze(runs[i], "right").at)]
  /\ reply' = NoReply
  /\ UNCHANGED <<logitsOnCPUArray, chunk, vocabSize, inputLogprobs,
                 currentOffset, itemIdx, tokIdx, pc, entryLen, trace,
                 previousCalls, other, request, result, engines>>

\* The page is loaded; the scorer is not part of the page
InitApp ==
  /\ vocabSize = 1
  /\ chunk = <<>>
  /\ logitsOnCPUArray = <<>>
  /\ inputLogprobs = <<>>
  /\ entryLen = 0
  /\ currentOffset = 0
  /\ itemIdx = 1
  /\ tokIdx = 1
  /\ pc = "loop"
  /\ trace = <<>>
  /\ previousCalls = <<>>
  /\ other = NoCall
  /\ request = DefaultRequest
  /\ reply = NoReply
  /\ result = NoResult
  /\ AppIdle

Clicks == \E kind \in {"left", "right", "both"} : Click(kind)

Selects == \E side \in {"left", "right"}, m \in ModelIds : Select(side, m)

\* The awaited calls of the handlers in progress settle
Settles ==
  \/ \E i \in 1..Len(runs), ok \in BOOLEAN :
       \E held \in HeldAfterFailure(runs[i]) : LoadSettles(i, ok, held)
  \/ \E i \in 1..Len(runs), rep \in AppReplies \cup {NoReply} :
       InferenceSettles(i, rep)
  \/ \E i \in 1..Len(runs) : BreathSettles(i)

NextApp == Clicks \/ Selects \/ Settles

SpecApp == InitApp /\ [][NextApp]_vars

\* Every awaited promise settles and the timer fires
SpecAppLive == SpecApp /\ WF_vars(Settles)

----------------------------------------------------------------------------
\* What the claims speak of, read off the chunk alone

\* The tokens of the chunk in encounter order, each with its global sequence
\* position pos, the item it is in and its index in that item.
RECURSIVE RunLayout(_, _, _, _)
RunLayout(c, i, j, pos) ==
  IF j > Len(c[i].tokens) THEN <<>>
  ELSE <<[token |-> c[i].tokens[j], pos |-> pos, item |-> i, idx |-> j]>>
       \o RunLayout(c, i, j + 1, pos + 1)

RECURSIVE LayoutFrom(_, _, _)
LayoutFrom(c, i, pos) ==
  IF i > Len(c) THEN <<>>
  ELSE IF c[i].isArray
       THEN RunLayout(c, i, 1, pos) \o LayoutFrom(c, i + 1, pos + Len(c[i].tokens))
       ELSE LayoutFrom(c, i + 1, pos + IMAGE_EMBED_SIZE)

Layout == LayoutFrom(chunk, 1, 0)

\* The values this call has pushed
NEmitted == Len(inputLogprobs) - entryLen
Emitted(i) == inputLogprobs[entryLen + i]

\* Row r of the buffer, elements [r * vocabSize, (r + 1) * vocabSize)
RowInBuffer(r) ==
  vocabSize > 0 /\ r >= 0 /\ (r + 1) * vocabSize <= Len(logitsOnCPUArray)
Row(r) == [j \in 1..vocabSize |-> logitsOnCPUArray[r * vocabSize + j]]

RECURSIVE SeqMax(_, _)
SeqMax(r, n) ==
  IF n = 1 THEN r[1]
  ELSE LET rest == SeqMax(r, n - 1) IN IF r[n] > rest THEN r[n] ELSE rest

\* log-softmax of row r at token t: r[t] - (log(sum of exp(r[j] - m)) + m),
\* with m the maximum of r, as this expression evaluates in double precision
LogSoftmax(r, t) ==
  LET m == SeqMax(r, Len(r))
  IN IF Len(r) = 1 \/ Absorbs(m) THEN Num(r[t + 1] - m)
     ELSE [k |-> "logprob", x |-> r[t + 1], m |-> m,
           e |-> [j \in 1..Len(r) |-> r[j] - m]]

TokenValid(t) == t >= 0 /\ t < vocabSize

\* Every token at a position p > 0 has its row p - 1 inside the buffer
LayoutFits ==
  LET L == Layout
  IN \A i \in 1..Len(L) : L[i].pos > 0 => RowInBuffer(L[i].pos - 1)

AllTokensValid ==
  LET L == Layout IN \A i \in 1..Len(L) : TokenValid(L[i].token)

ValidInputs == vocabSize > 0 /\ LayoutFits /\ AllTokensValid

----------------------------------------------------------------------------
\* C1. Row selection: every token at a global position p > 0 is scored from
\* row p - 1, that is, the subarray is taken at (p-1)*vocabSize and
\* p*vocabSize; when that row lies in the buffer exactly its elements are read
\* and, for a valid token, the value pushed is the log-softmax of row p - 1.
C1_RowSelection ==
  LET L == Layout
  IN
  /\ Len(trace) = NEmitted
  /\ Len(trace) <= Len(L)
  /\ \A i \in 1..Len(trace) :
       LET p == L[i].pos
       IN p > 0 =>
            /\ ~trace[i].sentinel
            /\ trace[i].row = p - 1
            /\ trace[i].begin = (p - 1) * vocabSize
            /\ trace[i].end = p * vocabSize
            /\ RowInBuffer(p - 1) =>
                 /\ trace[i].from = (p - 1) * vocabSize
                 /\ trace[i].to = p * vocabSize
                 /\ TokenValid(L[i].token) =>
                      Emitted(i) = LogSoftmax(Row(p - 1), L[i].token)

\* A token after an image has been scored from the row before it, in a
\* buffer whose rows differ.
C1_Witness ==
  /\ pc = "returned"
  /\ vocabSize = 2
  /\ \E i \in 1..Len(trace) :
       /\ trace[i].row = IMAGE_EMBED_SIZE
       /\ RowInBuffer(trace[i].row + 1)
       /\ Row(trace[i].row) # Row(trace[i].row + 1)
       /\ Emitted(i).k = "logprob"

----------------------------------------------------------------------------
\* C2 as stated. First-position sentinel: for any chunk whose first segment
\* is a TokenRun, the first value emitted is exactly 0.0 (here for valid
\* inputs only, which is all it takes to refute it).
C2_FirstRunSentinel ==
  (ValidInputs /\ Len(chunk) >= 1 /\ chunk[1].isArray /\ NEmitted >= 1)
    => Emitted(1) = Num(0)

\* C2 amended. For any chunk whose first segment is a non-empty TokenRun, the
\* first value emitted is exactly 0.0, pushed by the sentinel branch.
C2_NonEmptyFirstRunSentinel ==
  (Len(chunk) >= 1 /\ chunk[1].isArray /\ chunk[1].tokens # <<>> /\ NEmitted >= 1)
    => (Emitted(1) = Num(0) /\ trace[1].sentinel)

\* A call on an array that held a value, with a first run of two tokens, has
\* returned.
C2_Witness ==
  /\ pc = "returned"
  /\ entryLen = 1
  /\ Len(chunk) >= 1 /\ chunk[1].isArray /\ Len(chunk[1].tokens) = 2
  /\ Emitted(1) = Num(0)
  /\ Emitted(2).k = "logprob"

\* An item that takes positions comes right before item it
FollowsImageOrRun(it) == it > 1
FollowsConsumingItem(it) ==
  it > 1 /\ (~chunk[it - 1].isArray \/ chunk[it - 1].tokens # <<>>)

\* C3 as stated. The sentinel branch is taken only at global position 0, and
\* the first token of a TokenRun that follows an EmbeddingBlock or another
\* TokenRun is scored from the preceding row, not given the sentinel (here
\* for valid inputs only, which is all it takes to refute it).
C3_SentinelOnlyAtSequenceStart ==
  LET L == Layout
  IN ValidInputs =>
       \A i \in 1..Len(trace) :
         /\ trace[i].sentinel => L[i].pos = 0
         /\ (L[i].idx = 1 /\ FollowsImageOrRun(L[i].item))
              => (~trace[i].sentinel /\ trace[i].row = L[i].pos - 1)

\* C3 amended. The sentinel branch is taken exactly for a token at global
\* position 0, so at most once per call; the first token of a TokenRun that
\* follows an EmbeddingBlock or a non-empty TokenRun is scored from the
\* preceding row, not given the sentinel.
C3_SentinelOnlyAtPositionZero ==
  LET L == Layout
  IN
  /\ \A i \in 1..Len(trace) :
       /\ trace[i].sentinel <=> L[i].pos = 0
       /\ (L[i].idx = 1 /\ FollowsConsumingItem(L[i].item))
            => (~trace[i].sentinel /\ trace[i].row = L[i].pos - 1)
  /\ Cardinality({i \in 1..Len(trace) : trace[i].sentinel}) <= 1

\* A call has given the sentinel to its first token and has scored the first
\* token of a later run, which follows an image or a non-empty run.
C3_Witness ==
  /\ pc = "returned"
  /\ \E i, j \in 1..Len(trace) :
       /\ trace[i].sentinel
       /\ ~trace[j].sentinel
       /\ Layout[j].idx = 1
       /\ FollowsConsumingItem(Layout[j].item)

\* C4. Embedding skip: the step that processes an image item advances the
\* cursor by exactly IMAGE_EMBED_SIZE, pushes nothing and reads no logits.
C4_EmbeddingSkip ==
  [][(InItem /\ ~chunk[itemIdx].isArray)
       => /\ currentOffset' = currentOffset + IMAGE_EMBED_SIZE
          /\ inputLogprobs' = inputLogprobs
          /\ trace' = trace
          /\ itemIdx' = itemIdx + 1]_vars

\* An image item right after the first token has just been processed.
C4_Witness ==
  /\ pc = "loop"
  /\ itemIdx = 3 /\ tokIdx = 1
  /\ chunk[1].isArray /\ ~chunk[2].isArray
  /\ NEmitted = 1
  /\ currentOffset = 1 + IMAGE_EMBED_SIZE

RECURSIVE ImagesIn(_, _)
ImagesIn(c, n) ==
  IF n = 0 THEN 0 ELSE ImagesIn(c, n - 1) + (IF c[n].isArray THEN 0 ELSE 1)

RECURSIVE TokensIn(_, _)
TokensIn(c, n) ==
  IF n = 0 THEN 0 ELSE TokensIn(c, n - 1) + (IF c[n].isArray THEN Len(c[n].tokens) ELSE 0)

\* C5. Length invariant: a call emits as many values as the TokenRuns of the
\* chunk hold tokens, whatever the images; never more on the way, and none
\* for a chunk of images only.
C5_LengthInvariant ==
  /\ NEmitted <= TokensIn(chunk, Len(chunk))
  /\ pc = "returned" => NEmitted = TokensIn(chunk, Len(chunk))

\* A call on a chunk with an image between two runs has returned.
C5_Witness ==
  /\ pc = "returned"
  /\ Len(chunk) = 3
  /\ ~chunk[2].isArray
  /\ NEmitted = 3

\* The score the token of layout entry en is due
ExpectedScore(en) ==
  IF en.pos = 0 THEN Num(0)
  ELSE LogProb(logitsOnCPUArray,
               subarray(Len(logitsOnCPUArray), (en.pos - 1) * vocabSize,
                        en.pos * vocabSize),
               vocabSize, en.token)

\* C6. Encounter order: at every moment the i-th value emitted is the score
\* of the i-th token met when walking the items in order and each run left
\* to right.
C6_EncounterOrder ==
  LET L == Layout
  IN /\ NEmitted <= Len(L)
     /\ \A i \in 1..NEmitted : Emitted(i) = ExpectedScore(L[i])

\* A call has returned three values, all different, for tokens of two runs.
C6_Witness ==
  /\ pc = "returned"
  /\ NEmitted = 3
  /\ Layout[2].item # Layout[3].item
  /\ Emitted(1) # Emitted(2) /\ Emitted(2) # Emitted(3) /\ Emitted(1) # Emitted(3)
  /\ Emitted(2).k = "logprob" /\ Emitted(3).k = "logprob"

\* C7. Cursor bookkeeping: the cursor is the number of tokens consumed plus
\* IMAGE_EMBED_SIZE times the number of images passed, so each token, in the
\* sentinel branch as in the scoring branch, advanced it by exactly 1 and
\* the i-th token was met at its global position.
C7_CursorBookkeeping ==
  /\ itemIdx <= Len(chunk) + 1
  /\ currentOffset = TokensIn(chunk, itemIdx - 1) + (tokIdx - 1)
                     + IMAGE_EMBED_SIZE * ImagesIn(chunk, itemIdx - 1)
  /\ LET L == Layout IN \A i \in 1..Len(trace) : trace[i].pos = L[i].pos

\* [[0], image, [1]]: token 1 was met at position 6 and scored from row 5.
C7_Witness ==
  /\ pc = "returned"
  /\ chunk = <<Run(<<0>>), Image, Run(<<1>>)>>
  /\ Len(trace) = 2
  /\ trace[1].pos = 0 /\ trace[1].sentinel
  /\ trace[2].pos = 6 /\ trace[2].row = 5 /\ ~trace[2].sentinel

\* C8 as stated. Overrun is rejected: a call whose layout puts a token's row
\* outside the buffer does not return values (here with a positive vocabSize
\* and valid token ids, so that the overrun is the only fault).
C8_OverrunRejected ==
  (vocabSize > 0 /\ AllTokensValid /\ ~LayoutFits) => pc # "returned"

\* C9 as stated. Invalid token id is rejected: a call with a token id
\* outside [0, vocabSize) at a position p > 0 does not return values.
C9_InvalidTokenRejected ==
  (/\ vocabSize > 0
   /\ LayoutFits
   /\ LET L == Layout
      IN \E i \in 1..Len(L) : L[i].pos > 0 /\ ~TokenValid(L[i].token))
    => pc # "returned"

\* C10 as stated. Non-positive vocabSize is rejected: a call with
\* vocabSize <= 0 does not return scored values.
C10_NonPositiveVocabRejected ==
  (vocabSize <= 0 /\ \E i \in 1..Len(trace) : ~trace[i].sentinel)
    => pc # "returned"

----------------------------------------------------------------------------
\* The tokens the loops have passed: those of the items before itemIdx and
\* the tokens before tokIdx of the current run
TokensPassed == TokensIn(chunk, itemIdx - 1) + (tokIdx - 1)

\* C11. All-or-nothing: a call never stops part-way and never passes a
\* token without a value.  While the loops run some step is possible and
\* the values pushed are one per token passed, a malformed position
\* included; the call ends only by returning, with one value for every
\* token of the chunk.
C11_AllOrNothing ==
  /\ pc = "loop" => (InRun \/ ENABLED (EndRun \/ SkipImage \/ Return))
  /\ NEmitted = TokensPassed
  /\ pc = "returned" => NEmitted = Len(Layout)

\* A call has returned NaN for a token id outside the vocabulary and has
\* gone on to score the token after it.
C11_Witness ==
  /\ pc = "returned"
  /\ vocabSize = 1
  /\ NEmitted = 3
  /\ ~TokenValid(Layout[2].token)
  /\ Emitted(2).k = "nan"
  /\ Emitted(3) = Num(0)

\* The number of whole rows of the buffer
Rows == Len(logitsOnCPUArray) \div vocabSize

\* The positions all items consume
PositionsConsumed ==
  TokensIn(chunk, Len(chunk)) + IMAGE_EMBED_SIZE * ImagesIn(chunk, Len(chunk))

LayoutPrecondition ==
  /\ vocabSize > 0
  /\ PositionsConsumed <= Rows
  /\ AllTokensValid

\* C12. In-bounds reads under the layout precondition: when the positions
\* all items consume do not exceed the rows of the buffer and every token
\* id is in [0, vocabSize), every read is of a row pos - 1 in [0, rows), the
\* subarray is that row unclamped, and the elements read, the token's
\* included, are inside it.
C12_InBoundsReads ==
  LET L == Layout
  IN LayoutPrecondition =>
       \A i \in 1..Len(trace) :
         ~trace[i].sentinel =>
           /\ trace[i].row = trace[i].pos - 1
           /\ trace[i].row >= 0 /\ trace[i].row < Rows
           /\ trace[i].from = trace[i].begin /\ trace[i].to = trace[i].end
           /\ trace[i].from >= 0 /\ trace[i].to <= Len(logitsOnCPUArray)
           /\ trace[i].to - trace[i].from = vocabSize
           /\ L[i].token >= 0 /\ L[i].token < trace[i].to - trace[i].from

\* A call whose items consume every row of the buffer has scored its last
\* token, after an image, from the last row but one.
C12_Witness ==
  /\ pc = "returned"
  /\ LayoutPrecondition
  /\ vocabSize = 2
  /\ PositionsConsumed = Rows
  /\ \E i \in 1..Len(trace) :
       /\ ~trace[i].sentinel
       /\ trace[i].row = Rows - 2
       /\ trace[i].row >= IMAGE_EMBED_SIZE

----------------------------------------------------------------------------
\* The reads of trace entry i, done again on its view
ViewOf(i) == [from |-> trace[i].from, to |-> trace[i].to]
MaxValOf(i) == MaxLoop(logitsOnCPUArray, ViewOf(i), vocabSize, 0, NegInf)
SumExpOf(i) ==
  SumLoop(logitsOnCPUArray, ViewOf(i), vocabSize, 0, MaxValOf(i),
          [nan |-> FALSE, e |-> <<>>])

\* Entry i scored a token from a row that lies in the buffer
ScoredInBuffer(i) == ~trace[i].sentinel /\ RowInBuffer(trace[i].row)

\* C15. Stable log-softmax structure: for a token scored from a row r of the
\* buffer, the maximum found is the largest of the vocabSize entries of r,
\* the exponential sum has one term per entry with argument r[j] - m, every
\* argument is <= 0 and at least one is exactly 0, and for a valid token t
\* the value emitted is r[t] - (log(sum) + m).
C15_StableLogSoftmax ==
  LET L == Layout
  IN \A i \in 1..Len(trace) :
       ScoredInBuffer(i) =>
         LET r == Row(trace[i].row)
             maxVal == MaxValOf(i)
             sumExp == SumExpOf(i)
         IN /\ maxVal = Num(SeqMax(r, vocabSize))
            /\ \E j \in 1..vocabSize : r[j] = maxVal.x
            /\ ~sumExp.nan
            /\ Len(sumExp.e) = vocabSize
            /\ \A j \in 1..vocabSize :
                 sumExp.e[j] = r[j] - maxVal.x /\ sumExp.e[j] <= 0
            /\ \E j \in 1..vocabSize : sumExp.e[j] = 0
            /\ TokenValid(L[i].token) =>
                 Emitted(i) = Minus(Num(r[L[i].token + 1]),
                                    LogSumExp(sumExp, maxVal))

\* A token has been scored from a row whose two logits differ, the larger
\* one first: the arguments are 0 and a negative number.
C15_Witness ==
  /\ pc = "returned"
  /\ vocabSize = 2
  /\ \E i \in 1..Len(trace) :
       /\ ScoredInBuffer(i)
       /\ Emitted(i).k = "logprob"
       /\ Emitted(i).e[1] = 0
       /\ Emitted(i).e[2] < 0
       /\ Emitted(i).m > 0

\* Every logit of the row is the same number
Uniform(r) == \A j \in 1..Len(r) : r[j] = r[1]

\* v is c - (log(n) + c) for a logit c on which the sums are exact to the
\* last bit or so: a number whose exponential is 1/n within 1e-6
IsMinusLogOf(v, n) ==
  IF n = 1 THEN v = Num(0)
  ELSE /\ v.k = "logprob"
       /\ v.x = v.m
       /\ Len(v.e) = n
       /\ \A j \in 1..n : v.e[j] = 0

\* C16 as stated, on the rows where the model knows softmax(r)[t]: for a row
\* of vocabSize >= 2 equal logits softmax(r)[t] is 1/vocabSize, so the
\* exponential of the value emitted is 1/vocabSize within 1e-6 (here for
\* chunks of valid token ids only, which is all it takes to refute it).
C16_ExpIsSoftmax ==
  (vocabSize >= 2 /\ AllTokensValid) =>
    \A i \in 1..Len(trace) :
      (ScoredInBuffer(i) /\ Uniform(Row(trace[i].row)))
        => IsMinusLogOf(Emitted(i), vocabSize)

\* C17 as stated. Uniform row: when all vocabSize logits of the row used are
\* equal, the exponential sum is vocabSize terms exp(0) and the value emitted
\* is -log(vocabSize) for every token id, whatever the common logit (here
\* for chunks of valid token ids only, which is all it takes to refute it).
C17_UniformRow ==
  AllTokensValid =>
    \A i \in 1..Len(trace) :
      (ScoredInBuffer(i) /\ Uniform(Row(trace[i].row)))
        => /\ SumExpOf(i) = [nan |-> FALSE, e |-> [j \in 1..vocabSize |-> 0]]
           /\ IsMinusLogOf(Emitted(i), vocabSize)

----------------------------------------------------------------------------
\* C13 as stated. Purity: a call modifies no state visible to the caller;
\* so the array the caller passed as inputLogprobs holds what it held when
\* the call was made.
C13_NoSideEffects == Len(inputLogprobs) = entryLen

\* C13 amended. A step of a call modifies neither the logits buffer nor the
\* chunk nor vocabSize; the one effect the caller sees is on the array it
\* passed as inputLogprobs, which keeps its entries and gains the values
\* pushed; and a call starts from cursor 0 and the first item whatever the
\* call before it left.
C13_OnlyPushes ==
  [][/\ logitsOnCPUArray' = logitsOnCPUArray
     /\ chunk' = chunk
     /\ vocabSize' = vocabSize
     /\ pc = "loop" =>
          /\ Len(inputLogprobs') \in {Len(inputLogprobs), Len(inputLogprobs) + 1}
          /\ SubSeq(inputLogprobs', 1, Len(inputLogprobs)) = inputLogprobs
     /\ (pc = "returned" /\ pc' = "loop") =>
          (currentOffset' = 0 /\ itemIdx' = 1 /\ tokIdx' = 1 /\ trace' = <<>>)
    ]_vars

\* A second call on the array of the first has returned after reading rows
\* of the buffer.
C13_Witness ==
  /\ pc = "returned"
  /\ previousCalls # <<>>
  /\ entryLen >= 2
  /\ NEmitted >= 2
  /\ \E i \in 1..Len(trace) : ScoredInBuffer(i)

\* C14. Determinism: a second call with the same logits, chunk and
\* vocabSize pushes, value for value, what the first call pushed.
C14_Determinism ==
  previousCalls # <<>> =>
    /\ NEmitted <= Len(previousCalls[1])
    /\ \A i \in 1..NEmitted : Emitted(i) = previousCalls[1][i]
    /\ pc = "returned" => EmittedSeq = previousCalls[1]

\* Two calls have each returned the sentinel, a log-softmax and a NaN.
C14_Witness ==
  /\ pc = "returned"
  /\ previousCalls # <<>>
  /\ NEmitted = 3
  /\ Emitted(1) = Num(0)
  /\ \E i, j \in 2..3 : Emitted(i).k = "logprob" /\ Emitted(j).k = "nan"

----------------------------------------------------------------------------
\* A call run from f to its return with no other call in between
RECURSIVE RunAlone(_)
RunAlone(f) == IF f.pc = "returned" THEN f ELSE RunAlone(StepOf(f))

\* C18. Independent calls do not interfere: of two calls on their own
\* buffers and output arrays, with their steps interleaved in any order,
\* each has at its return the output array it has when run alone on its
\* arguments.
C18_NoInterference ==
  /\ pc = "returned" =>
       inputLogprobs =
         RunAlone(StartOf(logitsOnCPUArray, chunk, vocabSize,
                          SubSeq(inputLogprobs, 1, entryLen))).out
  /\ other.pc = "returned" =>
       other.out =
         RunAlone(StartOf(other.logits, other.chunk, other.vocabSize,
                          SubSeq(other.out, 1, other.entry))).out

\* Both calls have returned, on different buffers and chunks and with
\* different outputs of two values or more.
C18_Witness ==
  /\ pc = "returned" /\ other.pc = "returned"
  /\ other.logits # logitsOnCPUArray
  /\ other.chunk # chunk
  /\ other.out # inputLogprobs
  /\ Len(other.out) >= 2 /\ Len(inputLogprobs) >= 2

----------------------------------------------------------------------------
\* The entries of input_logprobs that are scores: valid numbers given to a
\* token at a position other than 0
ScoredEntries ==
  LET L == Layout
      lps == reply.input_logprobs.value
  IN {i \in 1..Len(lps) : L[i].pos # 0 /\ IsValidLogprob(lps[i])}

\* C19 as stated. Sentinel excluded from statistics: the mean
\* log-probability, and the perplexity exp(-mean), are taken over the values
\* emitted other than the position-0 sentinel (here for valid inputs only,
\* which is all it takes to refute it).
C19_SentinelExcluded ==
  (ValidInputs /\ result.done /\ ~result.threw)
    => Len(result.stats.over) = Cardinality(ScoredEntries)

----------------------------------------------------------------------------
\* The second call was made on the array of the first
OnSameArray == previousCalls # <<>> /\ entryLen > 0

\* C27. Append-only output: the entries the array held when the call was
\* made keep their values and indices and the call's values come after
\* them; after two calls on the same array it holds what it held at first,
\* then the first call's values, then the second call's.
C27_AppendOnly ==
  LET before == IF OnSameArray THEN entryLen - Len(previousCalls[1]) ELSE entryLen
  IN /\ Len(inputLogprobs) >= entryLen
     /\ before >= 0
     /\ previousCalls = <<>> => SubSeq(inputLogprobs, 1, entryLen) \in EntryArrays
     /\ OnSameArray =>
          /\ SubSeq(inputLogprobs, 1, before) \in EntryArrays
          /\ SubSeq(inputLogprobs, before + 1, entryLen) = previousCalls[1]
          /\ pc = "returned" =>
               inputLogprobs = SubSeq(inputLogprobs, 1, before)
                                 \o previousCalls[1] \o previousCalls[1]

\* Two calls on an array that held one value have returned: it holds that
\* value and twice the same three values.
C27_Witness ==
  /\ pc = "returned"
  /\ OnSameArray
  /\ Len(inputLogprobs) = 7
  /\ inputLogprobs[1] = Num(-1)
  /\ inputLogprobs[2] = Num(0) /\ inputLogprobs[5] = Num(0)
  /\ inputLogprobs[3].k = "logprob" /\ inputLogprobs[6] = inputLogprobs[3]

----------------------------------------------------------------------------
\* v is a number <= 0: a finite number that is, or a log-softmax whose token
\* logit is at most m and whose sum holds exp(0) and only arguments <= 0, so
\* that the sum is >= 1, its logarithm >= 0 and x - (log(sum) + m) <= 0,
\* rounding being monotonic
IsNonPositive(v) ==
  \/ v.k = "num" /\ v.x <= 0
  \/ /\ v.k = "logprob"
     /\ v.x <= v.m
     /\ \A j \in 1..Len(v.e) : v.e[j] <= 0
     /\ \E j \in 1..Len(v.e) : v.e[j] = 0

\* C28. Non-positive scores: for valid inputs (layout within the buffer,
\* token ids in [0, vocabSize)) every value emitted is <= 0, and 0.0, the
\* sentinel's value, is the largest an output holds.
C28_NonPositiveScores ==
  ValidInputs => \A i \in 1..NEmitted : IsNonPositive(Emitted(i))

\* A call on valid inputs has returned the sentinel, the score of a token
\* whose logit is the largest of its row and the score of one whose logit
\* is not.
C28_Witness ==
  /\ pc = "returned"
  /\ ValidInputs
  /\ NEmitted = 3
  /\ Emitted(1) = Num(0)
  /\ \E i, j \in 2..3 :
       /\ Emitted(i).k = "logprob" /\ Emitted(i).x = Emitted(i).m
       /\ Emitted(j).k = "logprob" /\ Emitted(j).x < Emitted(j).m

----------------------------------------------------------------------------
\* The chunk with run i cut in two after its k-th token, and the chunk with
\* an empty run put in before item j
SplitAt(c, i, k) ==
  SubSeq(c, 1, i - 1)
    \o <<Run(SubSeq(c[i].tokens, 1, k)),
          Run(SubSeq(c[i].tokens, k + 1, Len(c[i].tokens)))>>
    \o SubSeq(c, i + 1, Len(c))
InsertEmpty(c, j) == SubSeq(c, 1, j - 1) \o <<Run(<<>>)>> \o SubSeq(c, j, Len(c))

\* The chunks that differ from c by one split or one empty run
Resegmented(c) ==
  UNION {{SplitAt(c, i, k) : k \in 0..Len(c[i].tokens)}
           : i \in {n \in 1..Len(c) : c[n].isArray}}
    \cup {InsertEmpty(c, j) : j \in 1..(Len(c) + 1)}

\* What a call on chunk c, with the logits and vocabSize of this call,
\* pushes onto an empty array
OutputOn(c) == RunAlone(StartOf(logitsOnCPUArray, c, vocabSize, <<>>)).out

\* C26. Splitting is neutral: the values a call has emitted at its return
\* are those a call emits on the same logits and vocabSize for the chunk
\* with any one TokenRun replaced by two adjacent runs of the same tokens in
\* the same order, or with an empty TokenRun put in anywhere.
C26_SplittingIsNeutral ==
  pc = "returned" => \A c \in Resegmented(chunk) : OutputOn(c) = EmittedSeq

\* A call has returned three values for one run of three tokens, the same
\* as for the run cut after its first token.
C26_Witness ==
  /\ pc = "returned"
  /\ vocabSize = 2
  /\ Len(chunk) = 1 /\ chunk[1].isArray /\ Len(chunk[1].tokens) = 3
  /\ Emitted(2).k = "logprob" /\ Emitted(3).k = "logprob"
  /\ Len(SplitAt(chunk, 1, 1)) = 2
  /\ OutputOn(SplitAt(chunk, 1, 1)) = EmittedSeq

----------------------------------------------------------------------------
\* The rows p - 1 for the token positions p > 0 of the chunk
ReadRows ==
  LET L == Layout IN {L[i].pos - 1 : i \in {n \in 1..Len(L) : L[n].pos > 0}}

\* The row element idx (1-based) of the buffer lies in
RowOfElement(idx) == (idx - 1) \div vocabSize

\* The buffer with one element changed
Poke(buf, idx) == [buf EXCEPT ![idx] = IF @ = 0 THEN 5 ELSE 0]

\* What a call on buffer buf, with the chunk and vocabSize of this call,
\* pushes onto an empty array
OutputWith(buf) == RunAlone(StartOf(buf, chunk, vocabSize, <<>>)).out

\* C25. Unread rows do not influence the output: a call on the same chunk
\* and vocabSize and on a buffer that differs in an element of a row other
\* than the rows p - 1 of the token positions p > 0 emits the same values;
\* so for the row at the last position consumed and for a row whose next
\* position is inside an image.
C25_UnreadRows ==
  (pc = "returned" /\ vocabSize > 0) =>
    \A idx \in 1..Len(logitsOnCPUArray) :
      RowOfElement(idx) \notin ReadRows
        => OutputWith(Poke(logitsOnCPUArray, idx)) = EmittedSeq

\* [[0], image, [1]] on seven rows: the call has read row 5 only, not row
\* 0, whose next position is in the image, nor row 6, the last position.
C25_Witness ==
  /\ pc = "returned"
  /\ vocabSize = 2
  /\ chunk = <<Run(<<0>>), Image, Run(<<1>>)>>
  /\ Len(logitsOnCPUArray) = 14
  /\ ReadRows = {IMAGE_EMBED_SIZE}
  /\ Emitted(2).k = "logprob"
  /\ OutputWith(Poke(logitsOnCPUArray, 1)) = EmittedSeq
  /\ OutputWith(Poke(logitsOnCPUArray, 14)) = EmittedSeq
  /\ OutputWith(Poke(logitsOnCPUArray, 11)) # EmittedSeq


\* ---------------------------------------------------------------------
\* The demo application's claims

\* C22: at most one of runLeft, runRight and runBoth is in progress at any
\* time, processingSide is non-null exactly while one is, and no step taken
\* while processingSide is non-null starts another: a handler invoked then
\* returns, and the only engine calls pending are those of the one run
C22_MutualExclusion ==
  [][/\ Len(runs') <= 1
     /\ (runs' # <<>>) <=> (ui'.processingSide # "null")
     /\ runs' # <<>> => runs'[1].kind = ui'.processingSide
     /\ ui.processingSide # "null" =>
          /\ Len(runs') <= Len(runs)
          /\ runs' # <<>> => runs'[1].kind = runs[1].kind]_vars

\* A run on the right panel is reloading the engine; the buttons' handlers
\* can still be invoked
C22_Witness ==
  /\ ui.processingSide = "right"
  /\ Len(runs) = 1
  /\ runs[1].at = "reloading"
  /\ ENABLED Clicks


\* C21: runBoth is sequential. Its run is in the right-model analysis only
\* with the left result stored, it enters that analysis only from the pause
\* that follows the storing of the left result, and when it ends during the
\* left analysis (the analysis threw) the status is an Error message and
\* nothing of the right analysis has happened: no engine call, no result
C21_RunBothSequential ==
  [][/\ \A j \in 1..Len(runs') :
          runs'[j].kind = "both" /\ runs'[j].phase = "right" =>
            runs'[j].leftStored /\ ~ui'.leftResult.isNull
     /\ (runs # <<>> /\ runs' # <<>> /\ runs[1].kind = "both"
          /\ runs[1].phase = "left" /\ runs'[1].phase = "right") =>
          /\ runs[1].at = "breath"
          /\ ui.leftResult = ResultOf(AnalysisOf(reply), runs[1].modelId)
     /\ (runs # <<>> /\ runs' = <<>> /\ runs[1].kind = "both"
          /\ runs[1].phase = "left") =>
          /\ ui'.status = "Error"
          /\ ui'.rightResult = ui.rightResult
          /\ ui'.leftResult = ui.leftResult
          /\ \A e \in 1..Len(engines) \cap 1..Len(engines') :
               engines'[e] # engines[e] => runs[1].at = "reloading"]_vars

\* runBoth has stored the left result and is reloading the engine for the
\* right model
C21_Witness ==
  /\ Len(runs) = 1
  /\ runs[1].kind = "both"
  /\ runs[1].phase = "right"
  /\ runs[1].at = "reloading"
  /\ runs[1].leftStored
  /\ ~ui.leftResult.isNull


\* C24: whenever getEngineForModel has returned the cached engine without
\* loading (the completion of that analysis is pending on it) and the engine
\* holds a model, the model it holds is the requested one
C24_CachedEngineHoldsModel ==
  \A j \in 1..Len(runs) :
    (runs[j].at = "inference" /\ runs[j].cached
     /\ engines[runs[j].eng].model # "none") =>
      engines[runs[j].eng].model = runs[j].modelId


\* C23: the run lock is always released. Provided the awaited engine calls
\* settle, a processingSide of left, right or both is eventually followed
\* by null, whether the analysis succeeds, is rejected or throws
C23_LockReleased ==
  (ui.processingSide # "null") ~> (ui.processingSide = "null")

\* A run has failed and the lock is free again
C23_Witness ==
  /\ ui.status = "Error"
  /\ ui.processingSide = "null"
  /\ runs = <<>>


\* C29: when the completion of an analysis settles with a reply, analyze
\* pairs the i-th input token (as a string) with the i-th input logprob
\* for every i up to the smaller of the two lengths and makes no further
\* pair, and that is the result stored for the panel; when the reply has
\* no input_logprobs array analyze throws: the status is an Error message,
\* neither panel's result changes and the run is over
C29_DemoPairing ==
  [][(runs # <<>> /\ runs[1].at = "inference" /\ runs' # runs
      /\ reply'.created) =>
       IF reply'.input_logprobs.defined
       THEN LET stored == IF runs[1].phase = "left" THEN ui'.leftResult
                          ELSE ui'.rightResult
                lp == reply'.input_logprobs.value
                tk == reply'.input_tokens.value
            IN /\ ~stored.isNull
               /\ reply'.input_tokens.defined =>
                    /\ Len(stored.tokens) =
                         (IF Len(tk) < Len(lp) THEN Len(tk) ELSE Len(lp))
                    /\ \A k \in 1..Len(stored.tokens) :
                         stored.tokens[k] =
                           [token |-> StringOf(tk[k]), logprob |-> lp[k]]
       ELSE /\ ui'.status = "Error"
            /\ ui'.leftResult = ui.leftResult
            /\ ui'.rightResult = ui.rightResult
            /\ runs' = <<>>]_vars

\* The reply had three tokens and two logprobs, and the left panel holds
\* two pairs
C29_Witness ==
  /\ reply.created
  /\ reply.input_tokens = Defined(<<7, 8, 9>>)
  /\ reply.input_logprobs = Defined(<<Num(0), NaN>>)
  /\ runs = <<>>
  /\ ui.rightResult.isNull
  /\ ui.leftResult.tokens =
       <<[token |-> StringOf(7), logprob |-> Num(0)],
         [token |-> StringOf(8), logprob |-> NaN]>>

====
